---- MODULE Spec2Model ----
(***************************************************************************)
(* Model of src/app.py: the text normalizer clean_description, the         *)
(* identifier parser get_video_id_from_url, the tag extractor              *)
(* get_youtube_tags, the three extraction strategies and the orchestrator  *)
(* get_youtube_info.                                                       *)
(*                                                                         *)
(* A Python str is a sequence of one-character strings.  Characters that   *)
(* have no TLA+ string escape are written as caret tokens ("^A" is U+0001, *)
(* "^G" U+0007, "^H" U+0008, "^K" U+000B).                                 *)
(***************************************************************************)
EXTENDS Integers, Sequences, FiniteSets, TLC

VARIABLES
    pc,               \* position of the running function
    raw_description,  \* clean_description: its argument
    description,      \* clean_description: the value returned by the call
    again,            \* clean_description applied to its own output
    video_url,        \* get_video_id_from_url, get_youtube_tags: the argument
    shape,            \* how video_url was built: <<path shape, identifier>>
    video_id,         \* get_video_id_from_url: the value returned
    page_tags,        \* get_youtube_tags: quoted strings of the three arrays
    unique_tags,      \* get_youtube_tags: the value returned
    url,              \* get_youtube_info: the argument
    i,                \* get_youtube_info: number of the method of the main loop
    j,                \* get_youtube_info: number of the method of the scan loop
    result,           \* get_youtube_info: result of method i, title only
    invoked,          \* get_youtube_info: the methods called, in call order
    returned,         \* get_youtube_info: what each call returned or raised
    ret,              \* get_youtube_info: the value returned
    fetched           \* method 3: the requests it made, with the answers

cleanVars == <<raw_description, description, again>>
idVars == <<video_url, shape, video_id>>
tagVars == <<page_tags, unique_tags>>
infoVars == <<url, i, j, result, invoked, returned, ret, fetched>>
vars == <<pc, cleanVars, idVars, tagVars, infoVars>>

\* Optional values: Python's None, and a value that is not None.
None == <<>>
Some(x) == <<x>>

-----------------------------------------------------------------------------
(* Characters *)

NL == "\n"
CR == "\r"
TAB == "\t"
FF == "\f"
BSL == "\\"
DQ == "\""
SQ == "'"

\* ord(c) for the characters that occur in the model; all are ASCII.
Ord(c) ==
    CASE c = "^A" -> 1   [] c = "^G" -> 7   [] c = "^H" -> 8
      [] c = TAB  -> 9   [] c = NL   -> 10  [] c = "^K" -> 11
      [] c = FF   -> 12  [] c = CR   -> 13  [] c = " "  -> 32
      [] c = DQ   -> 34  [] c = "&"  -> 38  [] c = SQ   -> 39
      [] c = "/"  -> 47  [] c = "1"  -> 49  [] c = "="  -> 61
      [] c = "?"  -> 63  [] c = "E"  -> 69  [] c = "I"  -> 73
      [] c = BSL  -> 92  [] c = "k"  -> 107 [] c = "n"  -> 110
      [] c = "o"  -> 111 [] c = "r"  -> 114

Chars ==
    {"^A", "^G", "^H", TAB, NL, "^K", FF, CR, " ", DQ, "&", SQ, "/", "1",
     "=", "?", "E", "I", BSL, "k", "n", "o", "r"}

\* chr(n), for the code points of Chars.
Chr(n) == CHOOSE c \in Chars : Ord(c) = n

\* str.strip() and str.isspace(): the ASCII whitespace characters.
IsSpace(c) == c \in {" ", TAB, NL, "^K", FF, CR}

-----------------------------------------------------------------------------
(* str helpers *)

\* s[k:] with a 1-based k.
From(s, k) == SubSeq(s, k, Len(s))

\* s.startswith(p, k - 1)
StartsAt(s, p, k) ==
    /\ k + Len(p) - 1 <= Len(s)
    /\ \A m \in 1..Len(p) : s[k + m - 1] = p[m]

\* p in s
Contains(s, p) == \E k \in 1..(Len(s) + 1) : StartsAt(s, p, k)

\* s.find(p) as a 1-based index, 0 when absent.
Find(s, p) ==
    IF Contains(s, p)
    THEN CHOOSE k \in 1..(Len(s) + 1) :
            /\ StartsAt(s, p, k)
            /\ \A m \in 1..(k - 1) : ~StartsAt(s, p, m)
    ELSE 0

RECURSIVE Replace(_, _, _)
\* s.replace(old, new): non-overlapping occurrences, left to right.
Replace(s, old, new) ==
    IF Len(s) = 0 THEN <<>>
    ELSE IF StartsAt(s, old, 1)
         THEN new \o Replace(From(s, Len(old) + 1), old, new)
         ELSE <<s[1]>> \o Replace(From(s, 2), old, new)

RECURSIVE Split(_, _)
\* s.split(sep) for a non-empty separator: always at least one piece.
Split(s, sep) ==
    LET k == Find(s, sep)
    IN  IF k = 0 THEN <<s>>
        ELSE <<SubSeq(s, 1, k - 1)>> \o Split(From(s, k + Len(sep)), sep)

RECURSIVE Join(_, _)
\* sep.join(parts)
Join(parts, sep) ==
    IF Len(parts) = 0 THEN <<>>
    ELSE IF Len(parts) = 1 THEN parts[1]
         ELSE parts[1] \o sep \o Join(Tail(parts), sep)

RECURSIVE LStrip(_)
LStrip(s) ==
    IF Len(s) > 0 /\ IsSpace(s[1]) THEN LStrip(Tail(s)) ELSE s

RECURSIVE RStrip(_)
RStrip(s) ==
    IF Len(s) > 0 /\ IsSpace(s[Len(s)])
    THEN RStrip(SubSeq(s, 1, Len(s) - 1)) ELSE s

\* s.strip()
Strip(s) == RStrip(LStrip(s))

-----------------------------------------------------------------------------
(* clean_description *)

OctDigits == {"1"}
OctVal(c) == Ord(c) - 48

\* Number of octal digits (at most 3) of s starting at index k.
OctRun(s, k) ==
    IF k + 2 <= Len(s) /\ s[k + 1] \in OctDigits /\ s[k + 2] \in OctDigits
    THEN 3
    ELSE IF k + 1 <= Len(s) /\ s[k + 1] \in OctDigits THEN 2 ELSE 1

OctValue(s, k, n) ==
    IF n = 1 THEN OctVal(s[k])
    ELSE IF n = 2 THEN 8 * OctVal(s[k]) + OctVal(s[k + 1])
         ELSE 64 * OctVal(s[k]) + 8 * OctVal(s[k + 1]) + OctVal(s[k + 2])

\* The one-character escapes of the unicode_escape codec.
SimpleEscape(c) ==
    CASE c = BSL -> BSL [] c = SQ -> SQ  [] c = DQ -> DQ
      [] c = "n" -> NL  [] c = "r" -> CR [] c = "t" -> TAB
      [] c = "f" -> FF  [] c = "b" -> "^H" [] c = "v" -> "^K"
      [] c = "a" -> "^G"

SimpleEscapes == {BSL, SQ, DQ, "n", "r", "t", "f", "b", "v", "a"}

\* Escapes that take hexadecimal digits or a name; none of Chars is a
\* hexadecimal letter, an "x", "u", "U" or "N", so they are always truncated
\* when they occur and the codec raises.
HexEscapes == {"x", "u", "U", "N"}

RECURSIVE UnicodeEscape(_)
\* codecs.decode(s, 'unicode_escape'): <<TRUE, decoded>>, or <<FALSE, <<>>>>
\* when the codec raises UnicodeDecodeError (a backslash ending the string,
\* a truncated escape).
UnicodeEscape(s) ==
    IF Len(s) = 0 THEN <<TRUE, <<>>>>
    ELSE IF s[1] # BSL
    THEN LET r == UnicodeEscape(Tail(s))
         IN  <<r[1], <<s[1]>> \o r[2]>>
    ELSE IF Len(s) = 1 THEN <<FALSE, <<>>>>
    ELSE LET c == s[2] IN
         IF c = NL
         THEN UnicodeEscape(From(s, 3))
         ELSE IF c \in SimpleEscapes
         THEN LET r == UnicodeEscape(From(s, 3))
              IN  <<r[1], <<SimpleEscape(c)>> \o r[2]>>
         ELSE IF c \in OctDigits
         THEN LET n == OctRun(s, 2)
                  r == UnicodeEscape(From(s, 2 + n))
              IN  <<r[1], <<Chr(OctValue(s, 2, n))>> \o r[2]>>
         ELSE IF c \in HexEscapes
         THEN <<FALSE, <<>>>>
         ELSE LET r == UnicodeEscape(From(s, 3))
              IN  <<r[1], <<BSL, c>> \o r[2]>>

\* Lines 25-29: decode, keeping the text when the codec raises.
DecodeEscapes(d) ==
    LET r == UnicodeEscape(d) IN IF r[1] THEN r[2] ELSE d

\* Lines 32-37: the six literal replacements, in order.
ReplaceEscapes(d) ==
    LET d1 == Replace(d, <<BSL, "n">>, <<NL>>)
        d2 == Replace(d1, <<BSL, "r">>, <<CR>>)
        d3 == Replace(d2, <<BSL, "t">>, <<TAB>>)
        d4 == Replace(d3, <<BSL, DQ>>, <<DQ>>)
        d5 == Replace(d4, <<BSL, SQ>>, <<SQ>>)
    IN  Replace(d5, <<BSL, BSL>>, <<BSL>>)

\* Lines 41-53: the repair runs only on text holding U+00F0 or a code point
\* above 255; and encoding ASCII text as latin-1 and decoding it as UTF-8
\* gives the text back.
RepairEncoding(d) ==
    IF \E k \in 1..Len(d) : Ord(d[k]) = 240 \/ Ord(d[k]) > 255
    THEN SelectSeq(d, LAMBDA c : Ord(c) < 128)
    ELSE d

\* Lines 56-63: strip every line.
StripLines(d) ==
    LET lines == Split(d, <<NL>>)
    IN  Join([k \in 1..Len(lines) |-> Strip(lines[k])], <<NL>>)

RECURSIVE NewlineRun(_)
\* Length of the run of newlines d starts with.
NewlineRun(d) ==
    IF Len(d) > 0 /\ d[1] = NL THEN 1 + NewlineRun(Tail(d)) ELSE 0

RECURSIVE CollapseNewlines(_)
\* Line 66: re.sub(r'\n{3,}', '\n\n', d), each maximal run of three or more
\* newlines becoming two.
CollapseNewlines(d) ==
    IF Len(d) = 0 THEN <<>>
    ELSE LET n == NewlineRun(d)
         IN  IF n >= 3
             THEN <<NL, NL>> \o CollapseNewlines(From(d, n + 1))
             ELSE IF n >= 1
                  THEN SubSeq(d, 1, n) \o CollapseNewlines(From(d, n + 1))
                  ELSE <<d[1]>> \o CollapseNewlines(From(d, 2))

MaxDescription == 2000

\* Lines 75-76.
Truncate(d) ==
    IF Len(d) > MaxDescription
    THEN SubSeq(d, 1, MaxDescription) \o <<".", ".", ".">>
    ELSE d

clean_description(raw) ==
    Strip(Truncate(CollapseNewlines(StripLines(
        RepairEncoding(ReplaceEscapes(DecodeEscapes(raw)))))))

-----------------------------------------------------------------------------
(* Specification of the normalizer: clean_description is applied to a text   *)
(* and then to its own output.                                               *)

MaxLen == 4

CleanAlphabet == {"k", "n", "1", " ", NL, BSL, DQ}

RECURSIVE SeqsUpTo(_, _)
SeqsUpTo(S, n) ==
    IF n = 0 THEN {<<>>}
    ELSE LET shorter == SeqsUpTo(S, n - 1)
         IN  shorter \cup {Append(s, c) : s \in shorter, c \in S}

CleanIdle == raw_description = <<>> /\ description = <<>> /\ again = <<>>
IdIdle == video_url = <<>> /\ shape = <<>> /\ video_id = None
TagsIdle == page_tags = <<>> /\ unique_tags = <<>>
InfoIdle ==
    /\ url = <<>> /\ i = 0 /\ j = 0 /\ result = None
    /\ invoked = <<>> /\ returned = <<>> /\ ret = None
    /\ fetched = <<>>

CleanInit ==
    /\ pc = "clean"
    /\ raw_description \in SeqsUpTo(CleanAlphabet, MaxLen)
    /\ description = <<>>
    /\ again = <<>>
    /\ IdIdle /\ TagsIdle /\ InfoIdle

Clean ==
    /\ pc = "clean"
    /\ description' = clean_description(raw_description)
    /\ pc' = "reclean"
    /\ UNCHANGED <<raw_description, again, idVars, tagVars, infoVars>>

CleanAgain ==
    /\ pc = "reclean"
    /\ again' = clean_description(description)
    /\ pc' = "recleaned"
    /\ UNCHANGED <<raw_description, description, idVars, tagVars, infoVars>>

CleanNext == Clean \/ CleanAgain

SpecClean == CleanInit /\ [][CleanNext]_vars

\* C8: clean_description applied to its own output changes nothing, for every
\* text over CleanAlphabet (letters, a digit, space, newline, backslash and
\* double quote).
CleanIdempotent == pc = "recleaned" => again = description

-----------------------------------------------------------------------------
(* get_video_id_from_url *)

\* A URL is its parsed host name and the text after the host: path, then "?"
\* and the query when there is one.
Url(hostname, rest) == [hostname |-> hostname, rest |-> rest]

\* urlparse(video_url): the query starts after the first "?".
urlparse(u) ==
    LET q == Find(u.rest, <<"?">>)
    IN  [hostname |-> u.hostname,
         path |-> IF q = 0 THEN u.rest ELSE SubSeq(u.rest, 1, q - 1),
         query |-> IF q = 0 THEN <<>> ELSE From(u.rest, q + 1)]

\* One name=value field of a query string: <<name, value>>; a field without
\* "=" has no value.
Field(pair) ==
    LET e == Find(pair, <<"=">>)
    IN  IF e = 0 THEN <<pair, <<>>>>
        ELSE <<SubSeq(pair, 1, e - 1), From(pair, e + 1)>>

\* parse_qs(query).get("v", [None])[0]: the first "v" field with a non-blank
\* value (parse_qs drops blank values).
QueryV(query) ==
    LET fields == Split(query, <<"&">>)
        vs == SelectSeq(fields,
                LAMBDA f : Field(f)[1] = <<"v">> /\ Len(Field(f)[2]) > 0)
    IN  IF Len(vs) = 0 THEN None ELSE Some(Field(vs[1])[2])

\* Truth value of an Optional str: neither None nor "".
Truthy(opt) == opt # None /\ Len(opt[1]) > 0

ShortHosts == {"youtu.be"}
CanonicalHosts == {"www.youtube.com", "youtube.com"}

get_video_id_from_url(u) ==
    LET parsed == urlparse(u)
        found ==
            IF parsed.hostname \in ShortHosts
            THEN Some(From(parsed.path, 2))
            ELSE IF parsed.hostname \in CanonicalHosts
            THEN IF Contains(parsed.path, <<"/", "w", "a", "t", "c", "h">>)
                 THEN QueryV(parsed.query)
                 ELSE IF Contains(parsed.path, <<"/", "e", "m", "b", "e", "d", "/">>)
                 THEN Some(Split(Split(parsed.path,
                             <<"/", "e", "m", "b", "e", "d", "/">>)[2], <<"?">>)[1])
                 ELSE IF Contains(parsed.path, <<"/", "v", "/">>)
                 THEN Some(Split(Split(parsed.path, <<"/", "v", "/">>)[2],
                                 <<"?">>)[1])
                 ELSE None
            ELSE None
    IN  IF Truthy(found)
        THEN Some(Split(Split(found[1], <<"&">>)[1], <<"?">>)[1])
        ELSE found

-----------------------------------------------------------------------------
(* Specification of the identifier parser: URLs built from a host, a path    *)
(* shape and an identifier.                                                  *)

Hosts == ShortHosts \cup CanonicalHosts \cup {"example.com"}

Idents ==
    {<<>>, <<"a", "b">>, <<"v">>, <<"w", "a", "t", "c", "h", "m", "e">>}

Shapes ==
    {"id", "watch", "watch_v", "watch_v_t", "watch_t", "embed", "embed_q",
     "v", "other"}

\* The text after the host, for a path shape and an identifier.
Rest(sh, id) ==
    CASE sh = "id" -> <<"/">> \o id
      [] sh = "watch" -> <<"/", "w", "a", "t", "c", "h">>
      [] sh = "watch_v" -> <<"/", "w", "a", "t", "c", "h", "?", "v", "=">> \o id
      [] sh = "watch_v_t" ->
            <<"/", "w", "a", "t", "c", "h", "?", "v", "=">> \o id
                \o <<"&", "t", "=", "3">>
      [] sh = "watch_t" -> <<"/", "w", "a", "t", "c", "h", "?", "t", "=", "3">>
      [] sh = "embed" -> <<"/", "e", "m", "b", "e", "d", "/">> \o id
      [] sh = "embed_q" ->
            <<"/", "e", "m", "b", "e", "d", "/">> \o id \o <<"?", "x", "=", "1">>
      [] sh = "v" -> <<"/", "v", "/">> \o id
      [] sh = "other" -> <<"/", "c", "/">> \o id

IdInit ==
    /\ pc = "parse"
    /\ \E h \in Hosts, sh \in Shapes, id \in Idents :
          /\ video_url = Url(h, Rest(sh, id))
          /\ shape = <<sh, id>>
    /\ video_id = None
    /\ CleanIdle /\ TagsIdle /\ InfoIdle

ParseVideoId ==
    /\ pc = "parse"
    /\ video_id' = get_video_id_from_url(video_url)
    /\ pc' = "parsed"
    /\ UNCHANGED <<video_url, shape, cleanVars, tagVars, infoVars>>

IdNext == ParseVideoId

SpecId == IdInit /\ [][IdNext]_vars

\* The rule table of the identifier parser, by host and path shape.
RuleTable(h, sh, id) ==
    IF h \in ShortHosts
    THEN Some(SubSeq(Rest(sh, id), 2,
                     IF Find(Rest(sh, id), <<"?">>) = 0 THEN Len(Rest(sh, id))
                     ELSE Find(Rest(sh, id), <<"?">>) - 1))
    ELSE IF h \in CanonicalHosts
    THEN IF sh \in {"watch_v", "watch_v_t", "embed", "embed_q", "v"}
         THEN Some(id) ELSE None
    ELSE None

\* C5: for every URL built from the hosts and path shapes with a non-empty
\* identifier, get_video_id_from_url returns what the rule table gives.
VideoIdFollowsRuleTable ==
    (pc = "parsed" /\ Len(shape[2]) > 0)
        => video_id = RuleTable(video_url.hostname, shape[1], shape[2])

\* C6: every value get_video_id_from_url returns that is not None is a
\* non-empty string without "&" and "?".
VideoRefInvariant ==
    (pc = "parsed" /\ video_id # None)
        => /\ Len(video_id[1]) > 0
           /\ \A k \in 1..Len(video_id[1]) : video_id[1][k] \notin {"&", "?"}

-----------------------------------------------------------------------------
(* get_youtube_tags *)

MaxTagsReturned == 20

RECURSIVE RemoveDuplicates(_, _, _)
\* Lines 334-339: the loop over all_tags, with the set seen and the list
\* unique_tags built so far.
RemoveDuplicates(all_tags, seen, unique) ==
    IF Len(all_tags) = 0 THEN unique
    ELSE LET tag == all_tags[1]
         IN  IF tag \notin seen /\ Len(Strip(tag)) > 0
             THEN RemoveDuplicates(Tail(all_tags), seen \cup {tag},
                                   Append(unique, Strip(tag)))
             ELSE RemoveDuplicates(Tail(all_tags), seen, unique)

\* all_tags after the loop over the three patterns (lines 323-331); a pattern
\* that does not match adds nothing, like an empty array.
AllTags(page) == page.keywords \o page.tags \o page.hashtags

\* The page is the outcome of the GET: whether it succeeded, and the quoted
\* strings inside its "keywords", "tags" and "hashtags" arrays.
get_youtube_tags(page) ==
    IF ~page.ok THEN <<>>
    ELSE LET unique == RemoveDuplicates(AllTags(page), {}, <<>>)
         IN  SubSeq(unique, 1,
                    IF Len(unique) < MaxTagsReturned THEN Len(unique)
                    ELSE MaxTagsReturned)

-----------------------------------------------------------------------------
(* Specification of the tag extractor. *)

MaxArray == 2

TagTexts == {<<>>, <<" ">>, <<"a">>, <<" ", "a">>, <<"b">>}

TagsInit ==
    /\ pc = "tags"
    /\ page_tags \in [ok : BOOLEAN,
                       keywords : SeqsUpTo(TagTexts, MaxArray),
                       tags : SeqsUpTo(TagTexts, MaxArray),
                       hashtags : SeqsUpTo(TagTexts, MaxArray)]
    /\ unique_tags = <<>>
    /\ CleanIdle /\ IdIdle /\ InfoIdle

ExtractTags ==
    /\ pc = "tags"
    /\ unique_tags' = get_youtube_tags(page_tags)
    /\ pc' = "tagged"
    /\ UNCHANGED <<page_tags, cleanVars, idVars, infoVars>>

TagsNext == ExtractTags

SpecTags == TagsInit /\ [][TagsNext]_vars

\* Index of the first string of all_tags that is, stripped, the tag x.
FirstOccurrence(all_tags, x) ==
    CHOOSE k \in 1..Len(all_tags) :
        /\ Strip(all_tags[k]) = x
        /\ \A m \in 1..(k - 1) : Strip(all_tags[m]) # x

\* C7: the tags returned hold no string twice, and are in the order of their
\* first occurrence in keywords ++ tags ++ hashtags.
TagsDeduplicated ==
    pc = "tagged" =>
        \A p, q \in 1..Len(unique_tags) :
            p < q =>
                /\ unique_tags[p] # unique_tags[q]
                /\ FirstOccurrence(AllTags(page_tags), unique_tags[p])
                       < FirstOccurrence(AllTags(page_tags), unique_tags[q])

-----------------------------------------------------------------------------
(* The extraction strategies *)

TitleNotFound ==
    <<"T", "i", "t", "l", "e", " ", "n", "o", "t", " ", "f", "o", "u", "n",
      "d">>
DescriptionNotFound ==
    <<"D", "e", "s", "c", "r", "i", "p", "t", "i", "o", "n", " ", "n", "o",
      "t", " ", "f", "o", "u", "n", "d">>
ErrorText == <<"E", "r", "r", "o", "r">>
YouTubeSuffix ==
    <<" ", "-", " ", "Y", "o", "u", "T", "u", "b", "e">>

\* A call either raises or returns a value.
Raise == [exception |-> TRUE]
Return(v) == [exception |-> FALSE, value |-> v]

Info(title, desc) == [title |-> title, description |-> desc]

RECURSIVE FirstNonEmpty(_, _)
\* The loop over the patterns of one field (lines 168-174, 184-190, 218-225,
\* 233-239).  matches[k] is None when pattern k does not match the page and
\* Some(group 1) when it does; value is the field so far.
FirstNonEmpty(matches, value) ==
    IF Len(matches) = 0 THEN value
    ELSE IF matches[1] = None THEN FirstNonEmpty(Tail(matches), value)
    ELSE LET cleaned == clean_description(matches[1][1])
         IN  IF Len(Strip(cleaned)) > 0 THEN cleaned
             ELSE FirstNonEmpty(Tail(matches), cleaned)

\* raw_title.replace(' - YouTube', '') on every match.
WithoutSuffix(matches) ==
    [k \in 1..Len(matches) |->
        IF matches[k] = None THEN None
        ELSE Some(Replace(matches[k][1], YouTubeSuffix, <<>>))]

\* response.kind is "error" when the GET or raise_for_status raises,
\* "blocked" when the body is short or holds the marker phrase, "page"
\* otherwise.
get_youtube_info_method1(response) ==
    IF response.kind \in {"error", "blocked"} THEN Raise
    ELSE Return(Info(FirstNonEmpty(response.title, TitleNotFound),
                     FirstNonEmpty(response.description, DescriptionNotFound)))

get_youtube_info_method2(response) ==
    IF response.kind = "error" THEN Raise
    ELSE Return(Info(FirstNonEmpty(WithoutSuffix(response.title), TitleNotFound),
                     FirstNonEmpty(response.description, DescriptionNotFound)))

\* The single pattern of method 3 (lines 269-272, 285-293).
OnePattern(match, sentinel) ==
    IF match = None THEN sentinel ELSE clean_description(match[1])

\* TRUE when method 3 returns from the oEmbed branch (lines 261-275): the
\* oEmbed call answers 200 with a JSON object and the GET of the page gives
\* a response.  Anything raised in that branch is swallowed (line 276).
OembedPath(net) == net.oembed.kind = "ok" /\ net.main.kind = "page"

\* net holds the three responses method 3 may ask for: oembed, main (the
\* page, asked after oEmbed answered) and simple (the fallback GET).
get_youtube_info_method3(u, net) ==
    IF ~Truthy(get_video_id_from_url(u))
    THEN Return(Info(TitleNotFound, DescriptionNotFound))
    ELSE IF OembedPath(net)
    THEN Return(Info(IF net.oembed.title = None THEN TitleNotFound
                     ELSE net.oembed.title[1],
                     OnePattern(net.main.description, DescriptionNotFound)))
    ELSE IF net.simple.kind = "error"
    THEN Return(Info(TitleNotFound, DescriptionNotFound))
    ELSE Return(Info(OnePattern(WithoutSuffix(<<net.simple.title>>)[1],
                                TitleNotFound),
                     OnePattern(net.simple.description, DescriptionNotFound)))

\* One request of method 3 and the answer it got.
Request(to, answer) == [to |-> to, answer |-> answer]

\* The requests method 3 makes, in order: none without a video ID (line
\* 249); the oEmbed endpoint (line 261); after a 200 with a JSON object, the
\* page (line 268); and, unless the oEmbed branch returned, the fallback GET
\* (line 281).
Method3Requests(u, net) ==
    IF ~Truthy(get_video_id_from_url(u)) THEN <<>>
    ELSE <<Request("oembed", net.oembed)>>
            \o (IF net.oembed.kind = "ok"
                THEN <<Request("main", net.main)>> ELSE <<>>)
            \o (IF OembedPath(net)
                THEN <<>> ELSE <<Request("simple", net.simple)>>)

-----------------------------------------------------------------------------
(* get_youtube_info *)

AllFailedTitle ==
    <<"A", "l", "l", " ", "e", "x", "t", "r", "a", "c", "t", "i", "o", "n",
      " ", "m", "e", "t", "h", "o", "d", "s", " ", "f", "a", "i", "l", "e",
      "d">>
AllFailedDescription ==
    <<"C", "o", "u", "l", "d", " ", "n", "o", "t", " ", "e", "x", "t", "r",
      "a", "c", "t", " ", "v", "i", "d", "e", "o", " ", "i", "n", "f", "o",
      "r", "m", "a", "t", "i", "o", "n">>

\* Lines 91-95.
NumMethods == 3

\* Lines 100-101, 104, 110: the values that count as "not found".
TitleSentinels == {TitleNotFound, ErrorText}
DescriptionSentinels == {DescriptionNotFound, ErrorText}

TitleFound(r) == r.title \notin TitleSentinels
DescriptionFound(r) == r.description \notin DescriptionSentinels

\* The final return left out: the function falls off its end.
AllFailedMissing == None

\* Lines 123-126.
AllFailed == Some(Info(AllFailedTitle, AllFailedDescription))

\* Where the function stands after a step: in the main loop before method
\* i, in the scan loop before method j holding result, or returned with ret.
AtMain(n) == [pc |-> "main", i |-> n, j |-> 0, result |-> None, ret |-> None]
AtScan(n, m, r) == [pc |-> "scan", i |-> n, j |-> m, result |-> Some(r), ret |-> None]
Returned(n, m, r, v) == [pc |-> "done", i |-> n, j |-> m, result |-> r, ret |-> v]

\* The title-only test made before the test for both fields: a full success
\* goes on to scan the later methods.
MainIterationNoShortCircuit(n, out) ==
    IF out.exception \/ ~TitleFound(out.value)
    THEN IF n < NumMethods THEN AtMain(n + 1)
         ELSE Returned(n, 0, None, AllFailed)
    ELSE IF n < NumMethods THEN AtScan(n, n + 1, out.value)
         ELSE Returned(n, 0, Some(out.value), Some(out.value))

\* The last method's result returned after the loop in place of the failure
\* pair.
MainIterationReturnsLast(n, out) ==
    IF out.exception \/ ~TitleFound(out.value)
    THEN IF n < NumMethods THEN AtMain(n + 1)
         ELSE Returned(n, 0, None,
                       IF out.exception THEN AllFailed ELSE Some(out.value))
    ELSE IF DescriptionFound(out.value)
    THEN Returned(n, 0, None, Some(out.value))
    ELSE IF n < NumMethods THEN AtScan(n, n + 1, out.value)
         ELSE Returned(n, 0, Some(out.value), Some(out.value))

\* The scan starting at methods[i:] in place of methods[i+1:]: method n is
\* called again.
MainIterationRescans(n, out) ==
    IF out.exception \/ ~TitleFound(out.value)
    THEN IF n < NumMethods THEN AtMain(n + 1)
         ELSE Returned(n, 0, None, AllFailed)
    ELSE IF DescriptionFound(out.value)
    THEN Returned(n, 0, None, Some(out.value))
    ELSE AtScan(n, n, out.value)

\* Lines 97-120 and 123-126, one iteration of the main loop: out is what
\* method n did.
MainIteration(n, out) ==
    IF out.exception \/ ~TitleFound(out.value)
    THEN IF n < NumMethods THEN AtMain(n + 1)
         ELSE Returned(n, 0, None, AllFailed)
    ELSE IF DescriptionFound(out.value)
    THEN Returned(n, 0, None, Some(out.value))
    ELSE IF n < NumMethods THEN AtScan(n, n + 1, out.value)
         ELSE Returned(n, 0, Some(out.value), Some(out.value))

\* The scan returning result2 whole, its title included.
ScanIterationReturnsResult2(n, m, r, out) ==
    IF ~out.exception /\ DescriptionFound(out.value)
    THEN Returned(n, m, Some(r), Some(out.value))
    ELSE IF m < NumMethods THEN AtScan(n, m + 1, r)
         ELSE Returned(n, m, Some(r), Some(r))

\* The scan ending with the result of the last method it tried.
ScanIterationKeepsLast(n, m, r, out) ==
    IF ~out.exception /\ DescriptionFound(out.value)
    THEN Returned(n, m, Some(r),
                  Some(Info(r.title, out.value.description)))
    ELSE IF m < NumMethods THEN AtScan(n, m + 1, r)
         ELSE Returned(n, m, Some(r),
                       IF out.exception THEN Some(r) ELSE Some(out.value))

\* Lines 107-117, one iteration of the scan for a description: out is what
\* method m did, r the result of method n.
ScanIteration(n, m, r, out) ==
    IF ~out.exception /\ DescriptionFound(out.value)
    THEN Returned(n, m, Some(r),
                  Some(Info(r.title, out.value.description)))
    ELSE IF m < NumMethods THEN AtScan(n, m + 1, r)
         ELSE Returned(n, m, Some(r), Some(r))

-----------------------------------------------------------------------------
(* Specification of the orchestrator: one call of get_youtube_info, the      *)
(* network answering each method's requests in any way.                      *)

RawTexts == {<<" ">>, <<"k">>, ErrorText}

Matches == {None} \cup {Some(raw) : raw \in RawTexts}

\* Number of patterns per field of methods 1 and 2 (lines 161-166, 177-182,
\* 212-216, 227-231).
Method1Patterns == 4
Method2Patterns == 3

\* At most MaxMatching patterns of a field match a page.
MaxMatching == 2

MatchLists(n) ==
    {m \in [1..n -> Matches] :
        Cardinality({k \in 1..n : m[k] # None}) <= MaxMatching}

Failure(kind) == [kind |-> kind]

Responses1 ==
    {Failure("error"), Failure("blocked")}
        \cup [kind : {"page"}, title : MatchLists(Method1Patterns),
              description : MatchLists(Method1Patterns)]

Responses2 ==
    {Failure("error")}
        \cup [kind : {"page"}, title : MatchLists(Method2Patterns),
              description : MatchLists(Method2Patterns)]

Responses3 ==
    [oembed : {Failure("error"), Failure("non200"), Failure("invalid")}
                \cup [kind : {"ok"}, title : Matches],
     main : {Failure("error")} \cup [kind : {"page"}, description : Matches],
     simple : {Failure("error")}
                \cup [kind : {"page"}, title : Matches, description : Matches]]

InfoUrls ==
    {Url("youtu.be", <<"/", "a", "b">>),
     Url("youtu.be", <<"/">>),
     Url("www.youtube.com", <<"/", "w", "a", "t", "c", "h", "?", "v", "=", "a">>),
     Url("example.com", <<"/", "a", "b">>)}

\* What a call of each method can do.
Outcomes1 == {get_youtube_info_method1(r) : r \in Responses1}
Outcomes2 == {get_youtube_info_method2(r) : r \in Responses2}
Outcomes3(u) == {get_youtube_info_method3(u, net) : net \in Responses3}

Outcomes(m, u) ==
    CASE m = 1 -> Outcomes1
      [] m = 2 -> Outcomes2
      [] m = 3 -> Outcomes3(u)

\* A call of a method: what it returned or raised, and for method 3 the
\* requests it made.
Call(out, reqs) == [out |-> out, fetched |-> reqs]

Calls(m, u) ==
    CASE m = 1 -> {Call(out, <<>>) : out \in Outcomes1}
      [] m = 2 -> {Call(out, <<>>) : out \in Outcomes2}
      [] m = 3 -> {Call(get_youtube_info_method3(u, net),
                        Method3Requests(u, net)) : net \in Responses3}

InfoInit ==
    /\ pc = "main"
    /\ url \in InfoUrls
    /\ i = 1 /\ j = 0 /\ result = None
    /\ invoked = <<>> /\ returned = <<>> /\ ret = None
    /\ fetched = <<>>
    /\ CleanIdle /\ IdIdle /\ TagsIdle

Goto(next) ==
    /\ pc' = next.pc /\ i' = next.i /\ j' = next.j
    /\ result' = next.result /\ ret' = next.ret

\* The body of the main loop: method i is called.
TryMethod ==
    /\ pc = "main"
    /\ \E call \in Calls(i, url) :
          /\ invoked' = Append(invoked, i)
          /\ returned' = Append(returned, call.out)
          /\ fetched' = fetched \o call.fetched
          /\ Goto(MainIteration(i, call.out))
    /\ UNCHANGED <<url, cleanVars, idVars, tagVars>>

\* The body of the scan loop: method j is called for its description.
ScanMethod ==
    /\ pc = "scan"
    /\ \E call \in Calls(j, url) :
          /\ invoked' = Append(invoked, j)
          /\ returned' = Append(returned, call.out)
          /\ fetched' = fetched \o call.fetched
          /\ Goto(ScanIteration(i, j, result[1], call.out))
    /\ UNCHANGED <<url, cleanVars, idVars, tagVars>>

Next == TryMethod \/ ScanMethod

Spec == InfoInit /\ [][Next]_vars

-----------------------------------------------------------------------------
(* Properties of the orchestrator *)

Called(m) == \E p \in 1..Len(invoked) : invoked[p] = m

\* What the first call of method m did.
OutcomeOf(m) == returned[CHOOSE p \in 1..Len(invoked) : invoked[p] = m]

\* The method raised or returned a sentinel title.
NoTitle(out) == out.exception \/ out.value.title \in {TitleNotFound, ErrorText}
HasDescription(out) ==
    ~out.exception /\ out.value.description \notin {DescriptionNotFound, ErrorText}
FullSuccess(out) == ~NoTitle(out) /\ HasDescription(out)
TitleOnly(out) == ~NoTitle(out) /\ ~HasDescription(out)

\* The methods before k were all called and gave no title.
AllBeforeFailed(k) == \A m \in 1..(k - 1) : Called(m) /\ NoTitle(OutcomeOf(m))

\* C1: when method k returns a title and a description, and every method
\* before it raised or returned a sentinel title, the call has returned
\* exactly what method k returned and no method after k is ever called.
ShortCircuit ==
    \A k \in 1..NumMethods :
        (Called(k) /\ FullSuccess(OutcomeOf(k)) /\ AllBeforeFailed(k))
            => /\ pc = "done"
               /\ ret = Some(OutcomeOf(k).value)
               /\ \A p \in 1..Len(invoked) : invoked[p] <= k

ShortCircuitWitness ==
    /\ pc = "done" /\ invoked = <<1, 2>>
    /\ returned[1] = Raise
    /\ FullSuccess(returned[2])
    /\ ret = Some(returned[2].value)

\* The methods after k that were called and returned a description.
DescribedAfter(k) ==
    {m \in (k + 1)..NumMethods : Called(m) /\ HasDescription(OutcomeOf(m))}

Lowest(S) == CHOOSE m \in S : \A n \in S : m <= n

\* C2: when method k is the first to return a title and its description is a
\* sentinel, the call returns k's title with the description of the first
\* later method that returns one, the methods between them having been
\* tried and skipped; with k's own description when no later method has one.
PartialMerge ==
    pc = "done" =>
        \A k \in 1..NumMethods :
            (Called(k) /\ TitleOnly(OutcomeOf(k)) /\ AllBeforeFailed(k))
                => IF DescribedAfter(k) # {}
                   THEN /\ ret = Some(Info(OutcomeOf(k).value.title,
                              OutcomeOf(Lowest(DescribedAfter(k))).value.description))
                        /\ \A m \in (k + 1)..Lowest(DescribedAfter(k)) : Called(m)
                   ELSE /\ ret = Some(OutcomeOf(k).value)
                        /\ \A m \in (k + 1)..NumMethods : Called(m)

\* Method 1 gives a title only, method 2 raises, method 3 a description only.
PartialMergeWitness ==
    /\ pc = "done" /\ invoked = <<1, 2, 3>>
    /\ TitleOnly(returned[1])
    /\ returned[2] = Raise
    /\ NoTitle(returned[3]) /\ HasDescription(returned[3])
    /\ ret = Some(Info(returned[1].value.title, returned[3].value.description))

\* C3: when every method called raised or returned a sentinel title, all three
\* were called and the call returns the fixed failure pair.
TotalFailure ==
    (pc = "done" /\ \A p \in 1..Len(returned) : NoTitle(returned[p]))
        => /\ invoked = <<1, 2, 3>>
           /\ ret = Some(Info(AllFailedTitle, AllFailedDescription))

\* All three fail, one of them with a description that is no sentinel.
TotalFailureWitness ==
    /\ pc = "done" /\ invoked = <<1, 2, 3>>
    /\ \A p \in 1..3 : NoTitle(returned[p])
    /\ HasDescription(returned[1])
    /\ returned[2] = Raise
    /\ ret = Some(Info(AllFailedTitle, AllFailedDescription))

\* C4: whatever the methods do, the call ends and what it returns has a title
\* and a description: every step calls one more method, at most NumMethods
\* are called, a call that has not returned always has a method left to
\* call, and the value returned is a pair.
NeverFails ==
    /\ pc \in {"main", "scan", "done"}
    /\ Len(invoked) <= NumMethods
    /\ pc = "main" => i \in 1..NumMethods /\ Len(invoked) < i
    /\ pc = "scan" =>
            /\ j \in (i + 1)..NumMethods /\ Len(invoked) < j
            /\ result # None
    /\ pc = "done" =>
            /\ ret # None
            /\ DOMAIN ret[1] = {"title", "description"}

\* Method 2 raises within the scan for a description, method 3 (which
\* swallows its own errors) has none, and the call returns.
NeverFailsWitness ==
    /\ pc = "done" /\ invoked = <<1, 2, 3>>
    /\ TitleOnly(returned[1])
    /\ returned[2] = Raise
    /\ ~returned[3].exception /\ ~HasDescription(returned[3])
    /\ ret = Some(returned[1].value)

\* C9: a title or description that is empty counts as not found: no result
\* with an empty field is returned by the short-circuit branch, and no empty
\* title is remembered as a partial success.
EmptyIsNotFound ==
    /\ \A k \in 1..NumMethods :
            (pc = "done" /\ Called(k) /\ ~OutcomeOf(k).exception
                /\ result = None /\ ret = Some(OutcomeOf(k).value))
                => /\ Len(Strip(OutcomeOf(k).value.title)) > 0
                   /\ Len(Strip(OutcomeOf(k).value.description)) > 0
    /\ result # None => Len(Strip(result[1].title)) > 0

\* C10: a result other than the failure pair has the title of the lowest
\* method that returned one, and the description of that method or of a
\* higher one.
ForwardOnly ==
    (pc = "done" /\ ret # Some(Info(AllFailedTitle, AllFailedDescription)))
        => \E k \in 1..NumMethods :
              /\ Called(k) /\ ~NoTitle(OutcomeOf(k)) /\ AllBeforeFailed(k)
              /\ ret[1].title = OutcomeOf(k).value.title
              /\ \E m \in k..NumMethods :
                    /\ Called(m) /\ ~OutcomeOf(m).exception
                    /\ ret[1].description = OutcomeOf(m).value.description

\* Method 1 gives a description only, method 2 raises, method 3 a title only:
\* the result is method 3's, with its sentinel description.
ForwardOnlyWitness ==
    /\ pc = "done" /\ invoked = <<1, 2, 3>>
    /\ NoTitle(returned[1]) /\ HasDescription(returned[1])
    /\ returned[2] = Raise
    /\ TitleOnly(returned[3])
    /\ ret = Some(returned[3].value)

-----------------------------------------------------------------------------
(* Properties of method 3 and of the calls *)

Asked(to) == \E k \in 1..Len(fetched) : fetched[k].to = to

\* The answer to the request made to the endpoint.
Answer(to) == fetched[CHOOSE k \in 1..Len(fetched) : fetched[k].to = to].answer

\* C11: when the oEmbed request answers 200 (here: with a JSON object), the
\* title method 3 returns is the title field of that answer, the sentinel
\* when the field is absent, and the description is the one of the second
\* GET; the fallback GET is made only when the oEmbed call failed.
OembedDecidesPath ==
    (Called(3) /\ Asked("oembed") /\ Answer("oembed").kind = "ok")
        => /\ OutcomeOf(3).value.title =
                  (IF Answer("oembed").title = None THEN TitleNotFound
                   ELSE Answer("oembed").title[1])
           /\ Asked("main")
           /\ OutcomeOf(3).value.description =
                  (IF Answer("main").kind = "page"
                   THEN OnePattern(Answer("main").description,
                                   DescriptionNotFound)
                   ELSE DescriptionNotFound)
           /\ ~Asked("simple")

\* What clean_description returns on the texts the pages offer.
CleanOutputs == {clean_description(raw) : raw \in RawTexts}

\* C12: every title and description a method returns is its sentinel or an
\* output of clean_description, on the oEmbed path the output for the title
\* field of the answer; and so is every field the call returns.
EveryFieldNormalized ==
    /\ \A p \in 1..Len(returned) :
            ~returned[p].exception
                => /\ returned[p].value.title
                        \in {TitleNotFound} \cup CleanOutputs
                   /\ returned[p].value.description
                        \in {DescriptionNotFound} \cup CleanOutputs
    /\ (Called(3) /\ Asked("oembed") /\ ~Asked("simple")
            /\ Answer("oembed").title # None)
            => OutcomeOf(3).value.title
                  = clean_description(Answer("oembed").title[1])
    /\ pc = "done"
            => /\ ret[1].title
                    \in {TitleNotFound, AllFailedTitle} \cup CleanOutputs
               /\ ret[1].description
                    \in {DescriptionNotFound, AllFailedDescription}
                            \cup CleanOutputs

\* C13: within one call every method is called at most once, and the calls
\* are made in strictly increasing order of the methods.
NoRetry ==
    \A p, q \in 1..Len(invoked) : p < q => invoked[p] < invoked[q]

\* All three methods are called, the last two by the scan for a description.
NoRetryWitness ==
    /\ pc = "done" /\ invoked = <<1, 2, 3>>
    /\ result # None /\ i = 1 /\ j = 3
    /\ ~returned[2].exception /\ ~HasDescription(returned[2])

====
